---- MODULE Spec2Model ----
(***************************************************************************)
(* Model of lunary's organization API (packages/backend/api/v1/orgs.ts)    *)
(* and of the new-evaluation form (packages/frontend/pages/evaluations/    *)
(* new.tsx).                                                               *)
(*                                                                         *)
(* Each HTTP handler is an async function: it runs from one await to the   *)
(* next without interruption, and other requests run in between. A request *)
(* is a record with a program counter; one action is one stretch of the    *)
(* handler between two awaits, together with the database or provider      *)
(* effect of the await that ends it.                                       *)
(***************************************************************************)
EXTENDS Integers, Sequences, FiniteSets, TLC

VARIABLES
    org,                \* table org: id -> row (snake_case columns)
    pg,                 \* POST /playground requests: id -> request record
    up,                 \* POST /upgrade requests: id -> request record
    checkoutSessions,   \* billing provider: checkout sessions created so far
    subscriptions,      \* billing provider: subscription id -> subscription
    run,                \* table run: id -> row
    usage,              \* GET /usage: the last request and its response
    checklistModal, models, datasetId, checklistId, loading, progress,
    evalReq             \* the form's environment: timer, request in flight, route

backendVars == <<org, pg, up, checkoutSessions, subscriptions, run, usage>>
formVars == <<checklistModal, models, datasetId, checklistId, loading, progress, evalReq>>
vars == <<org, pg, up, checkoutSessions, subscriptions, run, usage,
          checklistModal, models, datasetId, checklistId, loading, progress, evalReq>>

(***************************************************************************)
(* Bounds                                                                  *)
(***************************************************************************)
MaxPlayground == 2      \* POST /playground requests in a run
MaxAllowance == 2       \* largest starting play_allowance
MaxUpgrade == 2         \* POST /upgrade requests in a run
MaxRuns == 3            \* rows of table run
MaxTicks == 2           \* timer ticks while one evaluation request is pending

(***************************************************************************)
(* JavaScript values                                                       *)
(***************************************************************************)
Undefined == "undefined"
Null == "null"

\* JS truthiness of a string-or-missing value (ids, query values, columns).
Truthy(v) == v \notin {Undefined, Null, ""}

\* Property access obj.key on a row object: a key the object lacks reads undefined.
Get(obj, key) == IF key \in DOMAIN obj THEN obj[key] ELSE Undefined

\* const [x] = rows
First(rows) == IF Len(rows) = 0 THEN <<>> ELSE <<rows[1]>>

(***************************************************************************)
(* The sql client (@/utils/db): column names of a result row are turned    *)
(* into camelCase.                                                         *)
(***************************************************************************)
CamelKey ==
    [id |-> "id", plan |-> "plan", name |-> "name",
     stripe_customer |-> "stripeCustomer",
     stripe_subscription |-> "stripeSubscription",
     play_allowance |-> "playAllowance"]

Camel(row) ==
    [c \in {CamelKey[k] : k \in DOMAIN row} |->
        row[CHOOSE k \in DOMAIN row : CamelKey[k] = c]]

\* select <cols> from org where id = orgId
SelectOrg(cols, orgId) ==
    IF orgId \in DOMAIN org
    THEN <<Camel([k \in cols |-> IF k = "id" THEN orgId ELSE org[orgId][k]])>>
    ELSE <<>>

(***************************************************************************)
(* Table org                                                               *)
(***************************************************************************)
OrgIds == {"o1", "o2", "o3"}        \* path parameter :orgId; "o3" has no row

OrgRows(a1, a2) ==
    [o1 |-> [plan |-> "free", stripe_customer |-> Null,
             stripe_subscription |-> Null, play_allowance |-> a1],
     o2 |-> [plan |-> "pro", stripe_customer |-> "cus_2",
             stripe_subscription |-> "sub_2", play_allowance |-> a2]]

(***************************************************************************)
(* POST /playground                                                        *)
(***************************************************************************)
PgReqs == 1..MaxPlayground

OPENROUTER_MODELS ==
    {"mistralai/mistral-7b-instruct", "openai/gpt-4-32k", "openchat/openchat-7b",
     "teknium/openhermes-2.5-mistral-7b", "mistralai/mixtral-8x7b-instruct",
     "open-orca/mistral-7b-openorca", "perplexity/pplx-70b-chat",
     "perplexity/pplx-7b-chat", "google/gemini-pro", "google/palm-2-chat-bison",
     "meta-llama/llama-2-13b-chat", "meta-llama/llama-2-70b-chat"}
ANTHROPIC_MODELS == {"claude-2", "claude-2.0", "claude-instant-v1"}

\* extra?.model of the request body; Undefined when the body names none
PgModels == {Undefined, "gpt-4", "claude-2", "google/gemini-pro"}

NoAllowanceLeft == "No allowance left today. Wait tomorrow or upgrade to continue using the playground."

PgIdle == [pc |-> "idle", orgId |-> Undefined, org |-> <<>>, model |-> Undefined,
           method |-> Undefined, calls |-> <<>>, dec |-> 0, error |-> Undefined]

\* the check with < in place of <=
AllowanceExhausted_lt(rows) ==
    /\ Len(rows) > 0
    /\ "playAllowance" \in DOMAIN rows[1]
    /\ rows[1].playAllowance < 0

\* org?.playAllowance <= 0 : undefined <= 0 is false
AllowanceExhausted(rows) ==
    /\ Len(rows) > 0
    /\ "playAllowance" \in DOMAIN rows[1]
    /\ rows[1].playAllowance <= 0

\* the update left out
DecrementAllowance_none(orgId) == org

\* update org set play_allowance = play_allowance - 1 where id = orgId
DecrementAllowance(orgId) ==
    [o \in DOMAIN org |->
        IF o = orgId
        THEN [org[o] EXCEPT !.play_allowance = @ - 1]
        ELSE org[o]]

\* extra?.model || "gpt-3.5-turbo"
ModelOrDefault(m) == IF Truthy(m) THEN m ELSE "gpt-3.5-turbo"

\* the call strategy chosen by model name
Method(model) ==
    IF model \in ANTHROPIC_MODELS THEN "litellm"
    ELSE IF model \in OPENROUTER_MODELS THEN "openrouter"
    ELSE "openai"

\* a request arrives
playgroundBegin(r, orgId) ==
    /\ pg[r].pc = "idle"
    /\ pg' = [pg EXCEPT ![r].pc = "select", ![r].orgId = orgId]
    /\ UNCHANGED <<org, up, checkoutSessions, subscriptions, run, usage>>
    /\ UNCHANGED formVars

\* const [org] = await sql`select play_allowance from org where id = ${orgId}`
playgroundSelect(r) ==
    /\ pg[r].pc = "select"
    /\ pg' = [pg EXCEPT ![r].pc = "check",
                        ![r].org = First(SelectOrg({"play_allowance"}, pg[r].orgId))]
    /\ UNCHANGED <<org, up, checkoutSessions, subscriptions, run, usage>>
    /\ UNCHANGED formVars

\* if (org?.playAllowance <= 0) throw ... ; then the update is sent and runs
playgroundUpdate(r) ==
    /\ pg[r].pc = "check"
    /\ IF AllowanceExhausted(pg[r].org)
       THEN /\ pg' = [pg EXCEPT ![r].pc = "threw", ![r].error = NoAllowanceLeft]
            /\ UNCHANGED org
       ELSE /\ org' = DecrementAllowance(pg[r].orgId)
            /\ pg' = [pg EXCEPT ![r].pc = "call",
                        ![r].dec = IF pg[r].orgId \in DOMAIN org
                                   THEN org[pg[r].orgId].play_allowance
                                        - org'[pg[r].orgId].play_allowance
                                   ELSE 0]
    /\ UNCHANGED <<up, checkoutSessions, subscriptions, run, usage>>
    /\ UNCHANGED formVars

\* lines 248-304: the body is read, the method chosen and called
playgroundCall(r, m) ==
    /\ pg[r].pc = "call"
    /\ LET model == ModelOrDefault(m)
       IN pg' = [pg EXCEPT ![r].pc = "await", ![r].model = model,
                           ![r].method = Method(model),
                           ![r].calls = Append(@, Method(model))]
    /\ UNCHANGED <<org, up, checkoutSessions, subscriptions, run, usage>>
    /\ UNCHANGED formVars

\* the provider answers (the stream is passed back) or the call rejects
playgroundRespond(r, ok) ==
    /\ pg[r].pc = "await"
    /\ pg' = [pg EXCEPT ![r].pc = IF ok THEN "done" ELSE "threw",
                        ![r].error = IF ok THEN Undefined ELSE "provider error"]
    /\ UNCHANGED <<org, up, checkoutSessions, subscriptions, run, usage>>
    /\ UNCHANGED formVars

playground ==
    \/ \E r \in PgReqs, o \in OrgIds : playgroundBegin(r, o)
    \/ \E r \in PgReqs : playgroundSelect(r)
    \/ \E r \in PgReqs : playgroundUpdate(r)
    \/ \E r \in PgReqs, m \in PgModels : playgroundCall(r, m)
    \/ \E r \in PgReqs, ok \in BOOLEAN : playgroundRespond(r, ok)

(***************************************************************************)
(* POST /upgrade                                                           *)
(***************************************************************************)
UpReqs == 1..MaxUpgrade

Plans == {"pro", "unlimited"}
Periods == {"monthly", "yearly"}
Origin == "https://app.lunary.ai"

\* the billing provider's prices; there is none for unlimited_yearly
Prices ==
    {[id |-> "price_1", lookup_key |-> "pro_monthly"],
     [id |-> "price_2", lookup_key |-> "pro_yearly"],
     [id |-> "price_3", lookup_key |-> "unlimited_monthly"]}

Subscriptions0 ==
    [sub_2 |-> [cancel_at_period_end |-> TRUE, plan |-> "pro", period |-> "monthly",
                items |-> <<[id |-> "si_2", price |-> "price_1"]>>]]

NoPriceFound == "No price found for this plan and period"
OrgNotFound == "Org not found"
BadArgument == "Stripe: Argument must be a string"

UpIdle == [pc |-> "idle", orgId |-> Undefined, plan |-> Undefined, period |-> Undefined,
           prices |-> <<>>, org |-> <<>>, log |-> <<>>, error |-> Undefined,
           body |-> <<>>]

\* `${plan}_${period}`
LookupKey(plan, period) == plan \o "_" \o period

\* stripe.prices.list({ lookup_keys: [lookupKey] }).data
PricesList(lookupKey) ==
    LET found == {p \in Prices : p.lookup_key = lookupKey}
    IN IF found = {} THEN <<>> ELSE <<CHOOSE p \in found : TRUE>>

\* the price check left out
NoPrice_never(prices) == FALSE

\* prices.data.length === 0
NoPrice(prices) == Len(prices) = 0

\* prices.data[0].id
PriceId(prices) == IF Len(prices) = 0 THEN Undefined ELSE prices[1].id

\* the branches swapped
NoSubscription_inv(o) == Truthy(Get(o, "stripe_subscription"))

\* !org.stripe_subscription : the branch that opens a checkout session
NoSubscription(o) == ~Truthy(Get(o, "stripe_subscription"))

\* stripe.checkout.sessions.create({...})
CheckoutSession(n, orgId, o, plan, period, priceId, origin) ==
    [id |-> n,
     mode |-> "subscription",
     client_reference_id |-> orgId,
     customer |-> IF Truthy(Get(o, "stripeCustomer"))
                  THEN Get(o, "stripeCustomer") ELSE Undefined,
     metadata |-> [plan |-> plan, period |-> period],
     line_items |-> <<[price |-> priceId, quantity |-> 1]>>,
     success_url |-> origin \o "/billing/thank-you",
     cancel_url |-> origin \o "/billing",
     url |-> <<"checkout", n>>]

\* stripe.subscriptions.update(id, {cancel_at_period_end: false, metadata, items})
SubscriptionUpdate(sub, plan, period, priceId) ==
    [sub EXCEPT !.cancel_at_period_end = FALSE,
                !.plan = plan, !.period = period,
                !.items = <<[id |-> sub.items[1].id, price |-> priceId]>>]

\* update org set plan = ${plan} where id = ${orgId}
SetPlan(orgId, plan) ==
    [o \in DOMAIN org |-> IF o = orgId THEN [org[o] EXCEPT !.plan = plan] ELSE org[o]]

\* a request arrives
upgradeBegin(r, orgId, plan, period) ==
    /\ up[r].pc = "idle"
    /\ up' = [up EXCEPT ![r].pc = "prices", ![r].orgId = orgId,
                        ![r].plan = plan, ![r].period = period]
    /\ UNCHANGED <<org, pg, checkoutSessions, subscriptions, run, usage>>
    /\ UNCHANGED formVars

\* const prices = await stripe.prices.list({ lookup_keys: [lookupKey] })
upgradePrices(r) ==
    /\ up[r].pc = "prices"
    /\ up' = [up EXCEPT ![r].pc = "select",
                        ![r].prices = PricesList(LookupKey(up[r].plan, up[r].period)),
                        ![r].log = Append(@, "prices.list")]
    /\ UNCHANGED <<org, pg, checkoutSessions, subscriptions, run, usage>>
    /\ UNCHANGED formVars

\* the price check, then const [org] = await sql`select ... from org where id = ${orgId}`
upgradeSelect(r) ==
    /\ up[r].pc = "select"
    /\ IF NoPrice(up[r].prices)
       THEN up' = [up EXCEPT ![r].pc = "threw", ![r].error = NoPriceFound]
       ELSE up' = [up EXCEPT ![r].pc = "branch",
                      ![r].org = First(SelectOrg({"id", "plan", "stripe_customer",
                                                  "stripe_subscription"}, up[r].orgId)),
                      ![r].log = Append(@, "select org")]
    /\ UNCHANGED <<org, pg, checkoutSessions, subscriptions, run, usage>>
    /\ UNCHANGED formVars

\* lines 130-185: the org check and the two branches
upgradeBranch(r) ==
    /\ up[r].pc = "branch"
    /\ LET q == up[r]
           priceId == PriceId(q.prices)
       IN IF Len(q.org) = 0
          THEN /\ up' = [up EXCEPT ![r].pc = "threw", ![r].error = OrgNotFound]
               /\ UNCHANGED <<org, checkoutSessions, subscriptions>>
          ELSE IF NoSubscription(q.org[1])
          THEN LET s == CheckoutSession(Cardinality(checkoutSessions) + 1, q.orgId,
                                        q.org[1], q.plan, q.period, priceId, Origin)
               IN /\ checkoutSessions' = checkoutSessions \cup {s}
                  /\ up' = [up EXCEPT ![r].pc = "done",
                                ![r].log = Append(@, "checkout.sessions.create"),
                                ![r].body = [ok |-> TRUE, url |-> s.url]]
                  /\ UNCHANGED <<org, subscriptions>>
          ELSE LET id == Get(q.org[1], "stripeSubscription")
               IN IF id \notin DOMAIN subscriptions
                  THEN \* stripe.subscriptions.retrieve rejects
                       /\ up' = [up EXCEPT ![r].pc = "threw", ![r].error = BadArgument,
                                     ![r].log = Append(@, "subscriptions.retrieve")]
                       /\ UNCHANGED <<org, checkoutSessions, subscriptions>>
                  ELSE /\ subscriptions' =
                            [subscriptions EXCEPT ![id] =
                                SubscriptionUpdate(@, q.plan, q.period, priceId)]
                       /\ org' = SetPlan(q.orgId, q.plan)
                       /\ up' = [up EXCEPT ![r].pc = "done",
                                     ![r].log = @ \o <<"subscriptions.retrieve",
                                                       "subscriptions.update",
                                                       "update org">>,
                                     ![r].body = [ok |-> TRUE]]
                       /\ UNCHANGED checkoutSessions
    /\ UNCHANGED <<pg, run, usage>>
    /\ UNCHANGED formVars

upgrade ==
    \/ \E r \in UpReqs, o \in OrgIds, pl \in Plans, pe \in Periods :
            upgradeBegin(r, o, pl, pe)
    \/ \E r \in UpReqs : upgradePrices(r)
    \/ \E r \in UpReqs : upgradeSelect(r)
    \/ \E r \in UpReqs : upgradeBranch(r)

(***************************************************************************)
(* GET /usage                                                              *)
(***************************************************************************)
HoursPerDay == 24       \* created_at and now() are counted in hours
WindowDays == 30

\* table app: id -> row
app ==
    [p1 |-> [org_id |-> "o1"], p2 |-> [org_id |-> "o1"], p3 |-> [org_id |-> "o2"]]

\* the projectId query value: absent, empty, or a project's id
ProjectIds == {Undefined, "", "p1", "p2", "p3"}

\* now()
Now == (WindowDays + 2) * HoursPerDay
WindowStart == Now - WindowDays * HoursPerDay

\* created_at of a run: on the edge of the window, just inside it, later the
\* same day, and today
CreatedAts == {WindowStart, WindowStart + 1, WindowStart + 12, Now - 1}

RunIds == 1..MaxRuns

\* date_trunc('day', t)
DateTrunc(t) == (t \div HoursPerDay) * HoursPerDay

\* the query without its r.app = projectId condition
UsageWhere_noproject(runs, orgId, projectId) ==
    {<<i, Undefined>> : i \in {j \in DOMAIN runs :
                                runs[j].created_at > Now - WindowDays * HoursPerDay}}

\* from run r [join app a on r.app = a.id] where ... : the ids of the rows kept
UsageWhere(runs, orgId, projectId) ==
    LET joined == IF ~Truthy(projectId)
                  THEN {<<i, a>> \in (DOMAIN runs) \X (DOMAIN app) : runs[i].app = a}
                  ELSE {<<i, Undefined>> : i \in DOMAIN runs}
    IN {ia \in joined :
            /\ ~Truthy(projectId) => app[ia[2]].org_id = orgId
            /\ Truthy(projectId) => runs[ia[1]].app = projectId
            /\ runs[ia[1]].created_at > Now - WindowDays * HoursPerDay}

RECURSIVE OrderDesc(_)
\* order by date desc
OrderDesc(S) ==
    IF S = {} THEN <<>>
    ELSE LET m == CHOOSE x \in S : \A y \in S : y <= x
         IN <<m>> \o OrderDesc(S \ {m})

\* select date_trunc('day', r.created_at) as date, count(*) as count ...
\* group by date order by date desc
UsageRows(runs, orgId, projectId) ==
    LET kept == UsageWhere(runs, orgId, projectId)
        dates == OrderDesc({DateTrunc(runs[ia[1]].created_at) : ia \in kept})
    IN [n \in 1..Len(dates) |->
            [date |-> dates[n],
             count |-> Cardinality({ia \in kept :
                            DateTrunc(runs[ia[1]].created_at) = dates[n]})]]

NoUsage == [served |-> FALSE, orgId |-> Undefined, projectId |-> Undefined, body |-> <<>>]

getUsage(orgId, projectId) ==
    /\ usage' = [served |-> TRUE, orgId |-> orgId, projectId |-> projectId,
                 body |-> UsageRows(run, orgId, projectId)]
    /\ UNCHANGED <<org, pg, up, checkoutSessions, subscriptions, run>>
    /\ UNCHANGED formVars

(***************************************************************************)
(* NewEvaluation (frontend)                                                *)
(***************************************************************************)
maxValues == 3

\* MODELS of package shared: the ids the picker offers
MODELS == {"gpt-4-turbo-preview", "gpt-3.5-turbo", "claude-2", "mistral-7b"}
Datasets == {"d1"}
Checklists == {"c1", "c2"}

FormPage == "/evaluations/new"

NoEvalReq == [pending |-> FALSE, timeEstimate |-> 0, ticks |-> 0, body |-> <<>>,
              route |-> FormPage]

\* the condition without the checklist
canStartEvaluation_nochecklist == Truthy(datasetId) /\ Len(models) > 0

\* const canStartEvaluation = datasetId && models.length > 0 && checklistId
canStartEvaluation == Truthy(datasetId) /\ Len(models) > 0 /\ Truthy(checklistId)

\* the picker without maxValues
CanSelect_nomax(value, m) == m \notin {value[i] : i \in 1..Len(value)}

\* MultiSelect with maxValues: an option can be added while fewer are selected
CanSelect(value, m) == m \notin {value[i] : i \in 1..Len(value)} /\ Len(value) < maxValues

Remove(value, m) == SelectSeq(value, LAMBDA x : x # m)

\* Math.min(100, progress + 100 / timeEstimate, 100), progress as a fraction <<n, d>>
NextProgress(p, timeEstimate) ==
    LET n == p[1] * timeEstimate + 100 * p[2]
        d == p[2] * timeEstimate
    IN IF n >= 100 * d THEN <<100, 1>> ELSE <<n, d>>

OnForm == evalReq.route = FormPage

\* <Select onChange={(datasetId) => setDatasetId(datasetId)} />
selectDataset(v) ==
    /\ OnForm
    /\ datasetId' = v
    /\ UNCHANGED <<checklistModal, models, checklistId, loading, progress, evalReq>>
    /\ UNCHANGED backendVars

\* <MultiSelect maxValues={3} onChange={(newModels) => setModels(newModels)} />
selectModel(m) ==
    /\ OnForm
    /\ CanSelect(models, m)
    /\ models' = Append(models, m)
    /\ UNCHANGED <<checklistModal, datasetId, checklistId, loading, progress, evalReq>>
    /\ UNCHANGED backendVars

deselectModel(m) ==
    /\ OnForm
    /\ m \in {models[i] : i \in 1..Len(models)}
    /\ models' = Remove(models, m)
    /\ UNCHANGED <<checklistModal, datasetId, checklistId, loading, progress, evalReq>>
    /\ UNCHANGED backendVars

\* <Select onChange={(datasetId) => setChecklistId(datasetId)} value={checklistId} />
selectChecklist(v) ==
    /\ OnForm
    /\ checklistId' = v
    /\ UNCHANGED <<checklistModal, models, datasetId, loading, progress, evalReq>>
    /\ UNCHANGED backendVars

\* <Anchor onClick={() => setChecklistModal(true)}>
openChecklistModal ==
    /\ OnForm
    /\ ~checklistModal
    /\ checklistModal' = TRUE
    /\ UNCHANGED <<models, datasetId, checklistId, loading, progress, evalReq>>
    /\ UNCHANGED backendVars

\* onClose={(id) => { setChecklistModal(false); if (id) setChecklistId(id) }}
closeChecklistModal(id) ==
    /\ OnForm
    /\ checklistModal
    /\ checklistModal' = FALSE
    /\ checklistId' = IF Truthy(id) THEN id ELSE checklistId
    /\ UNCHANGED <<models, datasetId, loading, progress, evalReq>>
    /\ UNCHANGED backendVars

\* startEval up to its await: the button is neither disabled nor loading
startEval ==
    /\ OnForm
    /\ canStartEvaluation
    /\ ~loading
    /\ loading' = TRUE
    /\ progress' = <<0, 1>>
    /\ evalReq' = [evalReq EXCEPT !.pending = TRUE,
                                  !.timeEstimate = Len(models) * 3 * 5,
                                  !.ticks = 0,
                                  !.body = <<[datasetId |-> datasetId, models |-> models,
                                              checklistId |-> checklistId]>>]
    /\ UNCHANGED <<checklistModal, models, datasetId, checklistId>>
    /\ UNCHANGED backendVars

\* the interval's callback, once a second while the request is pending
tick ==
    /\ OnForm
    /\ evalReq.pending
    /\ evalReq.ticks < MaxTicks
    /\ progress' = NextProgress(progress, evalReq.timeEstimate)
    /\ evalReq' = [evalReq EXCEPT !.ticks = @ + 1]
    /\ UNCHANGED <<checklistModal, models, datasetId, checklistId, loading>>
    /\ UNCHANGED backendVars

\* startEval after its await: res.evaluationId is set or not
evalResponse(evaluationId) ==
    /\ OnForm
    /\ evalReq.pending
    /\ loading' = FALSE
    /\ evalReq' = [evalReq EXCEPT !.pending = FALSE, !.body = <<>>, !.ticks = 0,
                        !.timeEstimate = 0,
                        !.route = IF Truthy(evaluationId)
                                  THEN "/evaluations/" \o evaluationId ELSE @]
    /\ UNCHANGED <<checklistModal, models, datasetId, checklistId, progress>>
    /\ UNCHANGED backendVars

NewEvaluation ==
    \/ \E v \in Datasets \cup {Null} : selectDataset(v)
    \/ \E m \in MODELS : selectModel(m)
    \/ \E m \in MODELS : deselectModel(m)
    \/ \E v \in Checklists \cup {Null} : selectChecklist(v)
    \/ openChecklistModal
    \/ \E id \in Checklists \cup {Undefined} : closeChecklistModal(id)
    \/ startEval
    \/ tick
    \/ \E id \in {Undefined, "e1"} : evalResponse(id)

(***************************************************************************)
(* Initial states and specifications                                       *)
(***************************************************************************)
InitForm ==
    /\ checklistModal = FALSE
    /\ models = <<"gpt-4-turbo-preview", "gpt-3.5-turbo">>
    /\ datasetId = Undefined
    /\ checklistId = Undefined
    /\ loading = FALSE
    /\ progress = <<0, 1>>
    /\ evalReq = NoEvalReq

InitBackend ==
    /\ pg = [r \in PgReqs |-> PgIdle]
    /\ up = [r \in UpReqs |-> UpIdle]
    /\ checkoutSessions = {}
    /\ subscriptions = Subscriptions0
    /\ usage = NoUsage

\* requests to POST /playground, from any starting allowance
InitPlayground ==
    /\ InitForm /\ InitBackend
    /\ \E a1 \in 0..MaxAllowance, a2 \in 0..MaxAllowance : org = OrgRows(a1, a2)
    /\ run = [i \in RunIds |-> [app |-> "p1", created_at |-> Now - 1]]

NextPlayground == playground

SpecPlayground == InitPlayground /\ [][NextPlayground]_vars

\* requests to POST /upgrade
InitUpgrade ==
    /\ InitForm /\ InitBackend
    /\ org = OrgRows(MaxAllowance, MaxAllowance)
    /\ run = [i \in RunIds |-> [app |-> "p1", created_at |-> Now - 1]]

NextUpgrade == upgrade

SpecUpgrade == InitUpgrade /\ [][NextUpgrade]_vars

\* requests to GET /usage, over any table run
InitUsage ==
    /\ InitForm /\ InitBackend
    /\ org = OrgRows(MaxAllowance, MaxAllowance)
    /\ run \in [RunIds -> [app : DOMAIN app, created_at : CreatedAts]]

NextUsage == \E o \in OrgIds, p \in ProjectIds : getUsage(o, p)

SpecUsage == InitUsage /\ [][NextUsage]_vars

\* the new-evaluation form
InitNewEvaluation ==
    /\ InitForm /\ InitBackend
    /\ org = OrgRows(MaxAllowance, MaxAllowance)
    /\ run = [i \in RunIds |-> [app |-> "p1", created_at |-> Now - 1]]

NextNewEvaluation == NewEvaluation

SpecNewEvaluation == InitNewEvaluation /\ [][NextNewEvaluation]_vars

(***************************************************************************)
(* Properties of POST /playground (SpecPlayground)                         *)
(***************************************************************************)
\* the request's allowance check has run and read a row with no allowance left
ReadNoAllowance(r) ==
    /\ pg[r].pc \notin {"idle", "select"}
    /\ Len(pg[r].org) > 0
    /\ pg[r].org[1].playAllowance <= 0

\* the request's allowance check has run and let it pass
PassedCheck(r) ==
    \/ pg[r].pc \in {"call", "await", "done"}
    \/ pg[r].pc = "threw" /\ pg[r].error # NoAllowanceLeft

\* C1: play_allowance of every organization is >= 0 in every reachable state,
\* whatever the starting allowance and however the select and update steps of
\* the requests interleave.
C1_AllowanceNeverNegative ==
    \A o \in DOMAIN org : org[o].play_allowance >= 0

\* C2: a request whose allowance check reads an allowance of zero or less ends
\* with the "No allowance left" error, has made no provider call (litellm,
\* OpenRouter or OpenAI) and has not touched the allowance.
C2_ZeroAllowanceFails ==
    \A r \in PgReqs :
        (ReadNoAllowance(r) /\ pg[r].pc # "check") =>
            /\ pg[r].pc = "threw"
            /\ pg[r].error = NoAllowanceLeft
            /\ pg[r].calls = <<>>
            /\ pg[r].method = Undefined
            /\ pg[r].dec = 0

C2_Witness ==
    \E r \in PgReqs :
        /\ pg[r].pc = "threw"
        /\ pg[r].orgId \in DOMAIN org
        /\ org[pg[r].orgId].play_allowance = 0
        /\ ReadNoAllowance(r)

Finished(r) == up[r].pc \in {"done", "threw"}

\* a price exists for the request's plan and period
HasPrice(r) ==
    /\ up[r].pc # "idle"
    /\ \E p \in Prices : p.lookup_key = LookupKey(up[r].plan, up[r].period)

\* the request's organization has a row, with or without a subscription on it
OrgHasSubscription(r) ==
    /\ up[r].orgId \in DOMAIN org
    /\ Truthy(org[up[r].orgId].stripe_subscription)

OrgHasNoSubscription(r) ==
    /\ up[r].orgId \in DOMAIN org
    /\ ~Truthy(org[up[r].orgId].stripe_subscription)

Created(r) == {n \in 1..Len(up[r].log) : up[r].log[n] = "checkout.sessions.create"}

\* C3: a finished request for an organization with a subscription on its row,
\* and a plan and period that have a price, has retrieved and updated that
\* subscription with the new price and written the plan to the org row, and
\* has created no checkout session.
C3_ExistingSubscriptionUpdated ==
    \A r \in UpReqs :
        (Finished(r) /\ HasPrice(r) /\ OrgHasSubscription(r)) =>
            /\ up[r].pc = "done"
            /\ up[r].log = <<"prices.list", "select org", "subscriptions.retrieve",
                             "subscriptions.update", "update org">>
            /\ up[r].body = [ok |-> TRUE]
            /\ subscriptions[org[up[r].orgId].stripe_subscription].items[1].price
                    \in {p.id : p \in Prices}
            /\ \A s \in checkoutSessions : s.client_reference_id # up[r].orgId

\* C4: a finished request for an organization whose row has no subscription,
\* and a plan and period that have a price, has created exactly one checkout
\* session (for that org, plan, period and price) and answered with its url;
\* it has updated no subscription and the org row is as it was.
C4_NoSubscriptionCheckout ==
    /\ Cardinality(checkoutSessions) =
            Cardinality({r \in UpReqs : Created(r) # {}})
    /\ \A r \in UpReqs :
        (Finished(r) /\ HasPrice(r) /\ OrgHasNoSubscription(r)) =>
            /\ up[r].pc = "done"
            /\ up[r].log = <<"prices.list", "select org", "checkout.sessions.create">>
            /\ Cardinality(Created(r)) = 1
            /\ \E s \in checkoutSessions :
                /\ up[r].body = [ok |-> TRUE, url |-> s.url]
                /\ \A t \in checkoutSessions : t.url = s.url => t = s
                /\ s.client_reference_id = up[r].orgId
                /\ s.metadata = [plan |-> up[r].plan, period |-> up[r].period]
                /\ \E p \in Prices :
                    /\ p.lookup_key = LookupKey(up[r].plan, up[r].period)
                    /\ s.line_items = <<[price |-> p.id, quantity |-> 1]>>
            /\ org[up[r].orgId] = OrgRows(MaxAllowance, MaxAllowance)[up[r].orgId]

C4_Witness ==
    \E r \in UpReqs :
        /\ up[r].pc = "done"
        /\ HasPrice(r)
        /\ OrgHasNoSubscription(r)
        /\ checkoutSessions # {}

\* C8: a request whose plan and period have no price throws "No price found"
\* having only listed prices (the org is not looked up); a request with a price
\* but no org row throws "Org not found" having only listed prices and looked
\* the org up. Neither creates a checkout session, updates a subscription or
\* writes the plan; the org is never looked up before the prices are listed
\* and found.
C8_UpgradeErrors ==
    /\ \A r \in UpReqs :
        /\ (Finished(r) /\ ~HasPrice(r)) =>
                /\ up[r].pc = "threw"
                /\ up[r].error = NoPriceFound
                /\ up[r].log = <<"prices.list">>
        /\ (Finished(r) /\ HasPrice(r) /\ up[r].orgId \notin DOMAIN org) =>
                /\ up[r].pc = "threw"
                /\ up[r].error = OrgNotFound
                /\ up[r].log = <<"prices.list", "select org">>
        /\ (\E n \in 1..Len(up[r].log) : up[r].log[n] = "select org") =>
                /\ up[r].log[1] = "prices.list"
                /\ HasPrice(r)
    /\ (\A r \in UpReqs : up[r].pc # "done") =>
            /\ checkoutSessions = {}
            /\ subscriptions = Subscriptions0
            /\ org = OrgRows(MaxAllowance, MaxAllowance)
    /\ \A s \in checkoutSessions :
            \E r \in UpReqs : up[r].pc = "done" /\ up[r].body.url = s.url

C8_Witness ==
    /\ \E r \in UpReqs : up[r].pc = "threw" /\ up[r].error = NoPriceFound
    /\ \E r \in UpReqs : up[r].pc = "threw" /\ up[r].error = OrgNotFound

(***************************************************************************)
(* Properties of GET /usage (SpecUsage)                                    *)
(***************************************************************************)
InWindow(i) == run[i].created_at > Now - WindowDays * HoursPerDay

\* the runs the filter selects; an empty projectId counts as absent
Selected(orgId, projectId) ==
    {i \in RunIds :
        /\ InWindow(i)
        /\ IF Truthy(projectId)
           THEN run[i].app = projectId
           ELSE app[run[i].app].org_id = orgId}

\* C5: the response has one row per day on which a selected run of the last
\* 30 days was created, with the number of selected runs of that day: the
\* runs of the project when projectId is given, the runs of every app of the
\* organization when it is not.
C5_UsageCounts ==
    usage.served =>
        LET sel == Selected(usage.orgId, usage.projectId)
            body == usage.body
        IN /\ \A n \in 1..Len(body) :
                /\ body[n].count > 0
                /\ body[n].count =
                     Cardinality({i \in sel : DateTrunc(run[i].created_at) = body[n].date})
           /\ \A i \in sel :
                \E n \in 1..Len(body) : body[n].date = DateTrunc(run[i].created_at)
           /\ \A n, m \in 1..Len(body) : n < m => body[n].date > body[m].date

C5_Witness ==
    /\ usage.served
    /\ Truthy(usage.projectId)
    /\ usage.body # <<>>
    /\ \E i \in RunIds : InWindow(i) /\ run[i].app # usage.projectId
    /\ \E i \in RunIds : ~InWindow(i) /\ run[i].app = usage.projectId

\* C10: the response of a request under organization O is the one the same
\* request gets when the runs of every other organization's projects are
\* taken out of the table.
C10_NoCrossOrgCounts ==
    usage.served =>
        LET own == {i \in RunIds : app[run[i].app].org_id = usage.orgId}
        IN usage.body = UsageRows([i \in own |-> run[i]], usage.orgId, usage.projectId)

(***************************************************************************)
(* Properties of the new-evaluation form (SpecNewEvaluation)               *)
(***************************************************************************)
\* C6: every POST /evaluations request carries a dataset id, at least one
\* model and a checklist id: the start action is taken only with all three.
C6_PostHasAllThree ==
    /\ evalReq.pending <=> evalReq.body # <<>>
    /\ evalReq.pending =>
            /\ loading
            /\ Truthy(evalReq.body[1].datasetId)
            /\ Len(evalReq.body[1].models) > 0
            /\ Truthy(evalReq.body[1].checklistId)

C6_Witness ==
    /\ evalReq.pending
    /\ evalReq.body # <<>>
    /\ Len(evalReq.body[1].models) = 1

\* C7: the models list never holds more than three entries, in the form and
\* in a request sent, and holds no model twice.
C7_AtMostThreeModels ==
    /\ Len(models) <= 3
    /\ Cardinality({models[i] : i \in 1..Len(models)}) = Len(models)
    /\ evalReq.body # <<>> => Len(evalReq.body[1].models) <= 3

C7_Witness ==
    /\ Len(models) = 3
    /\ \E m \in MODELS : m \notin {models[i] : i \in 1..Len(models)}
    /\ "gpt-4-turbo-preview" \notin {models[i] : i \in 1..Len(models)}

====
